---- MODULE Spec2Model ----
(***************************************************************************)
(* Model of 1_data_ingest.py: a linear batch script that acquires a Spark  *)
(* session, reads a CSV from cloud storage, exports it to the local file   *)
(* system (always, overwrite) and registers it as the Hive table           *)
(* default.hollow_processed when no table of that name is listed.          *)
(*                                                                         *)
(* Each statement of the script is one step of a run.  The engine calls    *)
(* are atomic: a call either has its effect or raises and has none.  An    *)
(* exception is never caught, so it ends the run on the spot.  A           *)
(* DataFrame is lazy: spark.read.csv fixes the column names (the header),  *)
(* the rows are read from the file by each write that consumes it.         *)
(***************************************************************************)
EXTENDS Naturals, Sequences, FiniteSets

\* Bounds of the model.
MaxRuns == 3           \* runs started in one behaviour

\* The processes the script runs in; two are enough for runs to overlap.
Procs == {"p1", "p2"}
\* Row contents the source file can have.
Versions == {"rows_v1", "rows_v2"}
\* Column sets a CSV header can give; every column is read as a string
\* (no inferSchema), so a schema is the header's column list.
Schemas == {"cols_a", "cols_b"}
\* A CSV file / a materialised dataset: its columns and its rows.
Data == [schema : Schemas, rows : Versions]

\* os.environ: STORAGE is unset ("None" is what os.getenv returns) or a URI.
Unset == "None"
StorageUri == "s3a://bucket"
EnvValues == {Unset, StorageUri}

TargetTable == "hollow_processed"
OtherTable == "other_table"

VARIABLES
    source,            \* <STORAGE>/datalake/data/content_metadata/hollow_processed.csv
    localExport,       \* files under file:/home/cdsw/raw/hollow-processed/
    catalog,           \* tables of the metastore namespace `default`
    pc,                \* per process: the statement it is about to execute
    environ,           \* per process: value of STORAGE in its environment
    spark,             \* per process: the session ({} before getOrCreate)
    storage,           \* per process: the variable `storage` ({} before line 31)
    hollow_processed,  \* per process: the DataFrame ({} before line 33)
    tableNames,        \* per process: the listing evaluated at line 64
    trace,             \* per process: statements executed so far in this run
    tableAtStart,      \* per process: the hollow_processed entries found at start
    runsStarted,       \* number of runs started
    lastRun,           \* record of the run that ended last
    logging            \* whether ended runs are recorded in lastRun

vars == <<source, localExport, catalog, pc, environ, spark, storage,
          hollow_processed, tableNames, trace, tableAtStart, runsStarted,
          lastRun, logging>>

procVars == <<environ, spark, storage, hollow_processed, tableNames, tableAtStart>>

\* The statements of the script, in program order.
Program == <<"getOrCreate", "environ", "read_csv", "printSchema", "write_csv",
             "show_databases", "show_tables", "list_tables", "saveAsTable",
             "describe">>

IndexOf(s) == CHOOSE i \in 1..Len(Program) : Program[i] = s

\* Faulty orders of the statements, used to test that the properties below
\* depend on the order: the schema printed after the export, and the export
\* moved behind the catalog steps.
StepAfter_PrintAfterExport(s) ==
    LET order == <<"getOrCreate", "environ", "read_csv", "write_csv",
                   "printSchema", "show_databases", "show_tables",
                   "list_tables", "saveAsTable", "describe">>
    IN  order[(CHOOSE i \in 1..Len(order) : order[i] = s) + 1]

StepAfter_ExportLast(s) ==
    LET order == <<"getOrCreate", "environ", "read_csv", "printSchema",
                   "show_databases", "show_tables", "list_tables",
                   "saveAsTable", "write_csv", "describe">>
    IN  order[(CHOOSE i \in 1..Len(order) : order[i] = s) + 1]

\* The statement that follows s in the file.
StepAfter(s) == Program[IndexOf(s) + 1]

\* Names returned by `show tables in default`.
ShowTables(cat) == {t.name : t \in cat}

\* Faulty guards: no test at all, the qualified name or the wrong case
\* looked up in a list of unqualified lower-case names, and the test
\* inverted.
TableMissing_Always(names) == TRUE

TableMissing_Qualified(names) == "default.hollow_processed" \notin names

TableMissing_UpperCase(names) == "HOLLOW_PROCESSED" \notin names

TableMissing_Inverted(names) == TargetTable \in names

\* Line 64: 'hollow_processed' not in list(...['tableName'])
TableMissing(names) == TargetTable \notin names

\* Faulty lookup: os.getenv('STORAGE'), which never raises.
LookupFails_Getenv(env) == FALSE

\* os.environ['STORAGE'] raises KeyError when the variable is unset.
LookupFails(env) == env = Unset

\* The rows a DataFrame yields when an action consumes it: the columns fixed
\* at read time, the rows of the file as it is now.
Collect(df) == [schema |-> df.schema, rows |-> source.rows]

\* Faulty exports: mode="append", and header=False (the column names are
\* not written).
WriteCsv_Append(old, d) == old \cup {d}

WriteCsv_NoHeader(old, d) == {[schema |-> "no_header", rows |-> d.rows]}

\* write.csv(path, mode="overwrite", header=True) after coalesce(1): the
\* directory holds the one new file and nothing else.
WriteCsv(old, d) == {d}

\* Faulty table write: mode("ignore"), which keeps a table that exists.
SaveAsTable_Ignore(cat, d) ==
    IF \E t \in cat : t.name = TargetTable
      THEN cat
      ELSE cat \cup {[name |-> TargetTable, format |-> "parquet", data |-> d]}

\* write.format("parquet").mode("overwrite").saveAsTable('default.hollow_processed')
SaveAsTable(cat, d) ==
    {t \in cat : t.name # TargetTable}
        \cup {[name |-> TargetTable, format |-> "parquet", data |-> d]}

\* The catalog entries called hollow_processed, and the data they hold.
TargetEntries(cat) == {t \in cat : t.name = TargetTable}

TargetData(cat) == {t.data : t \in TargetEntries(cat)}

PreExisting(d) == [name |-> TargetTable, format |-> "textfile", data |-> d]

Other == [name |-> OtherTable, format |-> "parquet",
          data |-> [schema |-> "cols_b", rows |-> "rows_v1"]]

\* Catalogs a run can find: empty, without the table, or with a table of
\* that name whose columns and rows are anything.
InitCatalogs ==
    {{}, {Other}}
      \cup {{Other, PreExisting([schema |-> s, rows |-> "rows_v1"])} : s \in Schemas}

NoRun == [outcome |-> "none", env |-> Unset, trace |-> <<>>, failedAt |-> "",
          tableBefore |-> {}, loaded |-> {}]

InitState ==
    /\ source \in Data
    /\ localExport = {}
    /\ catalog \in InitCatalogs
    /\ pc = [r \in Procs |-> "idle"]
    /\ environ = [r \in Procs |-> Unset]
    /\ spark = [r \in Procs |-> {}]
    /\ storage = [r \in Procs |-> {}]
    /\ hollow_processed = [r \in Procs |-> {}]
    /\ tableNames = [r \in Procs |-> {}]
    /\ trace = [r \in Procs |-> <<>>]
    /\ tableAtStart = [r \in Procs |-> {}]
    /\ runsStarted = 0
    /\ lastRun = NoRun

\* The record of a run that ends now: "done" after the last statement,
\* "failed" with the statement that raised; trace holds the statements that
\* completed.
RunRecord(r, outcome, failedAt) ==
    [outcome |-> outcome, env |-> environ[r],
     trace |-> IF outcome = "done" THEN Append(trace[r], pc[r]) ELSE trace[r],
     failedAt |-> failedAt, tableBefore |-> tableAtStart[r],
     loaded |-> {Collect(df) : df \in hollow_processed[r]}]

\* The process exits: its variables are gone, the run is on record.
Exit(r, outcome, failedAt) ==
    /\ lastRun' = IF logging THEN RunRecord(r, outcome, failedAt) ELSE lastRun
    /\ UNCHANGED logging
    /\ pc' = [pc EXCEPT ![r] = "idle"]
    /\ trace' = [trace EXCEPT ![r] = <<>>]
    /\ environ' = [environ EXCEPT ![r] = Unset]
    /\ spark' = [spark EXCEPT ![r] = {}]
    /\ storage' = [storage EXCEPT ![r] = {}]
    /\ hollow_processed' = [hollow_processed EXCEPT ![r] = {}]
    /\ tableNames' = [tableNames EXCEPT ![r] = {}]
    /\ tableAtStart' = [tableAtStart EXCEPT ![r] = {}]

\* Statement pc[r] completed: go on with `next`.
Goto(r, next) ==
    /\ pc' = [pc EXCEPT ![r] = next]
    /\ trace' = [trace EXCEPT ![r] = Append(trace[r], pc[r])]
    /\ UNCHANGED <<lastRun, logging>>

\* The script is started in a process whose STORAGE is `env`.
Start(r, env) ==
    /\ pc[r] = "idle"
    /\ runsStarted < MaxRuns
    /\ runsStarted' = runsStarted + 1
    /\ pc' = [pc EXCEPT ![r] = "getOrCreate"]
    /\ environ' = [environ EXCEPT ![r] = env]
    /\ tableAtStart' = [tableAtStart EXCEPT ![r] = TargetEntries(catalog)]
    /\ UNCHANGED <<source, localExport, catalog, spark, storage,
                   hollow_processed, tableNames, trace, lastRun, logging>>

\* Line 23: the session, configured with os.getenv('STORAGE').
GetOrCreate(r) ==
    /\ pc[r] = "getOrCreate"
    /\ spark' = [spark EXCEPT ![r] = {[hadoopFileSystems |-> environ[r]]}]
    /\ Goto(r, StepAfter(pc[r]))
    /\ UNCHANGED <<source, localExport, catalog, environ, storage,
                   hollow_processed, tableNames, tableAtStart, runsStarted>>

\* Line 31: storage = os.environ['STORAGE'].
Environ(r) ==
    /\ pc[r] = "environ"
    /\ IF LookupFails(environ[r])
         THEN /\ Exit(r, "failed", pc[r])
              /\ UNCHANGED <<source, localExport, catalog, runsStarted>>
         ELSE /\ storage' = [storage EXCEPT ![r] = {environ[r]}]
              /\ Goto(r, StepAfter(pc[r]))
              /\ UNCHANGED <<source, localExport, catalog, environ, spark,
                             hollow_processed, tableNames, tableAtStart, runsStarted>>

\* Lines 33-39: spark.read.csv(<storage>/datalake/..., header=True).
ReadCsv(r) ==
    /\ pc[r] = "read_csv"
    /\ \E root \in storage[r] :
          hollow_processed' = [hollow_processed EXCEPT ![r] =
                                 {[root |-> root, schema |-> source.schema]}]
    /\ Goto(r, StepAfter(pc[r]))
    /\ UNCHANGED <<source, localExport, catalog, environ, spark, storage,
                   tableNames, tableAtStart, runsStarted>>

\* Line 45: hollow_processed.printSchema().
PrintSchema(r) ==
    /\ pc[r] = "printSchema"
    /\ Goto(r, StepAfter(pc[r]))
    /\ UNCHANGED <<source, localExport, catalog, procVars, runsStarted>>

\* Lines 50-54: the local export.
WriteCsvStep(r) ==
    /\ pc[r] = "write_csv"
    /\ \E df \in hollow_processed[r] :
          localExport' = WriteCsv(localExport, Collect(df))
    /\ Goto(r, StepAfter(pc[r]))
    /\ UNCHANGED <<source, catalog, procVars, runsStarted>>

\* Line 56: spark.sql("show databases").show().
ShowDatabases(r) ==
    /\ pc[r] = "show_databases"
    /\ Goto(r, StepAfter(pc[r]))
    /\ UNCHANGED <<source, localExport, catalog, procVars, runsStarted>>

\* Line 58: spark.sql("show tables in default").show().
ShowTablesStep(r) ==
    /\ pc[r] = "show_tables"
    /\ Goto(r, StepAfter(pc[r]))
    /\ UNCHANGED <<source, localExport, catalog, procVars, runsStarted>>

\* Line 64: the listing is taken and the condition decided.
ListTables(r) ==
    /\ pc[r] = "list_tables"
    /\ tableNames' = [tableNames EXCEPT ![r] = ShowTables(catalog)]
    /\ Goto(r, IF TableMissing(ShowTables(catalog))
                 THEN StepAfter(pc[r]) ELSE StepAfter(StepAfter(pc[r])))
    /\ UNCHANGED <<source, localExport, catalog, environ, spark, storage,
                   hollow_processed, tableAtStart, runsStarted>>

\* Lines 65-71: the table is written, whatever the catalog holds by now.
SaveAsTableStep(r) ==
    /\ pc[r] = "saveAsTable"
    /\ \E df \in hollow_processed[r] :
          catalog' = SaveAsTable(catalog, Collect(df))
    /\ Goto(r, StepAfter(pc[r]))
    /\ UNCHANGED <<source, localExport, procVars, runsStarted>>

\* Line 77: describe formatted default.hollow_processed; the last statement.
\* It raises when no such table exists.
Describe(r) ==
    /\ pc[r] = "describe"
    /\ IF TargetEntries(catalog) = {}
         THEN Exit(r, "failed", pc[r])
         ELSE Exit(r, "done", "")
    /\ UNCHANGED <<source, localExport, catalog, runsStarted>>

\* An engine call raises (engine unreachable, file missing or unreadable,
\* path unwritable, permission denied): the statement has no effect and the
\* exception ends the run.
EngineCalls == {"getOrCreate", "read_csv", "write_csv", "show_databases",
                "show_tables", "list_tables", "saveAsTable", "describe"}

Raise(r) ==
    /\ pc[r] \in EngineCalls
    /\ Exit(r, "failed", pc[r])
    /\ UNCHANGED <<source, localExport, catalog, runsStarted>>

\* The source file is replaced by other content.
ChangeSource(d) ==
    /\ d # source
    /\ source' = d
    /\ UNCHANGED <<localExport, catalog, pc, procVars, trace, runsStarted,
                   lastRun, logging>>

Step(r) ==
    \/ GetOrCreate(r)
    \/ Environ(r)
    \/ ReadCsv(r)
    \/ PrintSchema(r)
    \/ WriteCsvStep(r)
    \/ ShowDatabases(r)
    \/ ShowTablesStep(r)
    \/ ListTables(r)
    \/ SaveAsTableStep(r)
    \/ Describe(r)
    \/ Raise(r)

\* Single-writer execution, the way the script is meant to be used: a run
\* starts when no other run is in progress, and the file changes between
\* runs only.  Every run that ends is recorded.
NoRunInProgress == \A q \in Procs : pc[q] = "idle"

SeqStart(r, env) == NoRunInProgress /\ Start(r, env)

SeqChangeSource(d) == NoRunInProgress /\ ChangeSource(d)

Init == InitState /\ logging = TRUE

Next ==
    \/ \E r \in Procs, env \in EnvValues : SeqStart(r, env)
    \/ \E r \in Procs : Step(r)
    \/ \E d \in Data : SeqChangeSource(d)

Spec == Init /\ [][Next]_vars

\* Overlapping runs: a run may start while another is in progress and the
\* file may change at any time.  Ended runs are not recorded.
ConcurrentInit == InitState /\ logging = FALSE

ConcurrentNext ==
    \/ \E r \in Procs, env \in EnvValues : Start(r, env)
    \/ \E r \in Procs : Step(r)
    \/ \E d \in Data : ChangeSource(d)

Concurrent == ConcurrentInit /\ [][ConcurrentNext]_vars

(***************************************************************************)
(* Properties.                                                             *)
(***************************************************************************)
Range(t) == {t[i] : i \in DOMAIN t}

\* The run with completed statements t has written the table.
Created(t) == "saveAsTable" \in Range(t)

Count(t, s) == Cardinality({i \in DOMAIN t : t[i] = s})

IsPrefix(t, u) == Len(t) <= Len(u) /\ \A i \in DOMAIN t : t[i] = u[i]

InProgress(r) == pc[r] # "idle"

\* This step is the end of run r / its successful end.
Ends(r) == pc[r] # "idle" /\ pc'[r] = "idle"

EndsDone(r) == Ends(r) /\ lastRun'.outcome = "done"

\* The dataset run r holds.
Loaded(r) == {Collect(df) : df \in hollow_processed[r]}

\* C1: idempotent catalog creation.  When a successful run ends whose
\* predecessor (the run that ended last) was successful, started without a
\* table hollow_processed and loaded the same data, then the predecessor
\* executed saveAsTable exactly once, this run did not execute it, and the
\* catalog holds exactly one table hollow_processed, with the data the
\* predecessor wrote.
C1_IdempotentCreation ==
    [][\A r \in Procs :
          (/\ EndsDone(r)
           /\ lastRun.outcome = "done"
           /\ lastRun.tableBefore = {}
           /\ lastRun.loaded = lastRun'.loaded)
          => /\ Count(lastRun.trace, "saveAsTable") = 1
             /\ Count(lastRun'.trace, "saveAsTable") = 0
             /\ Cardinality(TargetEntries(catalog')) = 1
             /\ TargetData(catalog') = lastRun.loaded]_vars

\* A second run with the same data is at its last statement, after a
\* successful first run that started without the table and created it.
C1_Witness ==
    \E r \in Procs :
        /\ pc[r] = "describe"
        /\ ~Created(trace[r])
        /\ lastRun.outcome = "done"
        /\ lastRun.tableBefore = {}
        /\ Created(lastRun.trace)
        /\ lastRun.loaded = Loaded(r)

\* C2: skip-on-exists.  Between runs, when the run that ended last found a
\* table hollow_processed at its start, it has not executed saveAsTable and
\* the table's entry (format, columns, rows) is the one it found; when that
\* run was successful it has executed the export, and the export holds its
\* data.
C2_SkipOnExists ==
    (NoRunInProgress /\ lastRun.outcome # "none" /\ lastRun.tableBefore # {})
    => /\ ~Created(lastRun.trace)
       /\ TargetEntries(catalog) = lastRun.tableBefore
       /\ lastRun.outcome = "done"
             => /\ Count(lastRun.trace, "write_csv") = 1
                /\ localExport = lastRun.loaded

\* A successful run has ended that found a table whose columns and rows
\* differ from the data it loaded.
C2_Witness ==
    /\ NoRunInProgress
    /\ lastRun.outcome = "done"
    /\ \E t \in lastRun.tableBefore, d \in lastRun.loaded :
          /\ t.format = "textfile"
          /\ t.data.schema # d.schema
          /\ t.data.rows # d.rows
          /\ t \in catalog
    /\ localExport = lastRun.loaded

\* C3: the local export is always refreshed.  Between runs, after any number
\* of runs, when the run that ended last was successful it has executed the
\* export and the export directory holds exactly the data it loaded.
C3_ExportRefreshed ==
    (NoRunInProgress /\ lastRun.outcome = "done")
    => /\ Count(lastRun.trace, "write_csv") = 1
       /\ Cardinality(lastRun.loaded) = 1
       /\ localExport = lastRun.loaded

\* A run has overwritten the export of a successful earlier run that had
\* loaded other data, and is at its last statement.
C3_Witness ==
    \E r \in Procs :
        /\ pc[r] = "describe"
        /\ lastRun.outcome = "done"
        /\ lastRun.loaded # {}
        /\ lastRun.loaded # Loaded(r)
        /\ localExport = Loaded(r)

\* C4: missing configuration.  A run whose STORAGE is unset executes nothing
\* but the session acquisition and the lookup, ends as failed, and none of
\* its steps changes the export or the catalog.
C4_MissingConfiguration ==
    [][\A r \in Procs :
          (InProgress(r) /\ environ[r] = Unset /\ pc'[r] # pc[r])
          => /\ pc[r] \in {"getOrCreate", "environ"}
             /\ pc'[r] \in {"environ", "idle"}
             /\ pc'[r] = "idle" => /\ lastRun'.outcome = "failed"
                                   /\ lastRun'.loaded = {}
                                   /\ Range(lastRun'.trace) \subseteq {"getOrCreate"}
             /\ localExport' = localExport
             /\ catalog' = catalog]_vars

\* A run with STORAGE unset has ended at the lookup, after an earlier run
\* had left an export and a table.
C4_Witness ==
    /\ NoRunInProgress
    /\ lastRun.env = Unset
    /\ lastRun.outcome = "failed"
    /\ lastRun.failedAt = "environ"
    /\ localExport # {}
    /\ TargetEntries(catalog) # {}

\* The order of the statements of a run; the creation is skipped when the
\* table is listed.
ExpectedOrder ==
    <<"getOrCreate", "environ", "read_csv", "printSchema", "write_csv",
      "show_databases", "show_tables", "list_tables", "saveAsTable",
      "describe">>

ExpectedOrderSkipping ==
    <<"getOrCreate", "environ", "read_csv", "printSchema", "write_csv",
      "show_databases", "show_tables", "list_tables", "describe">>

InOrder(t) == IsPrefix(t, ExpectedOrder) \/ IsPrefix(t, ExpectedOrderSkipping)

\* C5 as stated: the storage root is resolved before the session is
\* acquired, and no session is acquired in a run whose STORAGE is unset.
C5_ResolveBeforeSession ==
    /\ \A r \in Procs : spark[r] # {} => (storage[r] # {} /\ environ[r] # Unset)
    /\ lastRun.env = Unset => ~("getOrCreate" \in Range(lastRun.trace))

\* C5 as amended: the session is acquired first, also when STORAGE is
\* unset; the storage root is resolved second, and only when it is set; the
\* statements of a run, the one it is about to execute or failed in
\* included, follow the order: session, lookup, load, print schema, export,
\* show databases, show tables, listing, creation (if executed), description.
C5_SessionThenLookup ==
    /\ \A r \in Procs :
          /\ InProgress(r) => InOrder(Append(trace[r], pc[r]))
          /\ storage[r] # {} => (spark[r] # {} /\ environ[r] # Unset)
          /\ (InProgress(r) /\ pc[r] # "getOrCreate") => spark[r] # {}
    /\ lastRun.outcome = "done" => InOrder(lastRun.trace)
    /\ lastRun.outcome = "failed"
          => InOrder(Append(lastRun.trace, lastRun.failedAt))

\* A run whose STORAGE is unset has acquired the session and is about to
\* look the variable up, after a run that executed all ten statements.
C5_Witness ==
    /\ \E r \in Procs : environ[r] = Unset /\ pc[r] = "environ" /\ spark[r] # {}
    /\ lastRun.outcome = "done"
    /\ lastRun.trace = ExpectedOrder

SameSchema(ds, es) == \A d \in ds, e \in es : d.schema = e.schema

\* C6 as stated: after every successful run the columns of the export and
\* of the catalog table are those of the dataset the run loaded.
C6_SchemaOfBothWrites ==
    (NoRunInProgress /\ lastRun.outcome = "done")
    => /\ SameSchema(lastRun.loaded, localExport)
       /\ SameSchema(lastRun.loaded, TargetData(catalog))

\* C6 as amended: after every successful run the columns of the export are
\* those of the dataset the run loaded, and so are the columns of the
\* catalog table when the run created it.
C6_SchemaOfOwnWrites ==
    (NoRunInProgress /\ lastRun.outcome = "done")
    => /\ localExport # {}
       /\ SameSchema(lastRun.loaded, localExport)
       /\ Created(lastRun.trace)
             => /\ TargetData(catalog) # {}
                /\ SameSchema(lastRun.loaded, TargetData(catalog))

\* A successful run has ended that wrote both the export and the table.
C6_Witness ==
    /\ NoRunInProgress
    /\ lastRun.outcome = "done"
    /\ Created(lastRun.trace)
    /\ \E d \in lastRun.loaded :
          /\ localExport = {d}
          /\ TargetData(catalog) = {d}

\* C7: check-then-act.  A run executes saveAsTable only when the listing it
\* took did not hold the table, and the statement then replaces whatever
\* table of that name the catalog holds by now with the run's data: nothing
\* but the run's own, possibly stale, listing guards the creation.  With
\* overlapping runs the creation is therefore executed more than once
\* (C7_Witness); with one run at a time it is not (C1).
C7_OnlyTheListingGuards ==
    [][\A r \in Procs :
          (pc[r] = "saveAsTable" /\ pc'[r] = "describe")
          => /\ TableMissing(tableNames[r])
             /\ \E d \in Loaded(r) :
                   TargetEntries(catalog') =
                       {[name |-> TargetTable, format |-> "parquet", data |-> d]}]_vars

\* Two overlapping runs both started without the table, both listed the
\* catalog before either wrote, and both have executed the creation.
C7_Witness ==
    \A r \in Procs :
        /\ pc[r] = "describe"
        /\ tableAtStart[r] = {}
        /\ TableMissing(tableNames[r])
        /\ Count(trace[r], "saveAsTable") = 1

\* C8: no rollback.  Between runs, when the run that ended last failed, it
\* executed nothing after the statement that raised; when that statement
\* is one of the catalog steps after the export, the export holds the data
\* the run loaded and the table is as the run found it; when it is the
\* description after a creation, the created table is still there.
C8_NoRollback ==
    (NoRunInProgress /\ lastRun.outcome = "failed")
    => /\ InOrder(Append(lastRun.trace, lastRun.failedAt))
       /\ lastRun.failedAt \in {"show_databases", "show_tables", "list_tables",
                                 "saveAsTable"}
             => /\ lastRun.loaded # {}
                /\ localExport = lastRun.loaded
                /\ TargetEntries(catalog) = lastRun.tableBefore
       /\ (lastRun.failedAt = "describe" /\ Created(lastRun.trace))
             => /\ localExport = lastRun.loaded
                /\ TargetData(catalog) = lastRun.loaded

\* The creation failed in a run that had started without the table and had
\* replaced an older export by its own data.
C8_Witness ==
    /\ NoRunInProgress
    /\ lastRun.outcome = "failed"
    /\ lastRun.failedAt = "saveAsTable"
    /\ lastRun.tableBefore = {}
    /\ TargetEntries(catalog) = {}
    /\ lastRun.loaded # {}
    /\ localExport = lastRun.loaded
    /\ runsStarted > 1

\* C9: no refresh.  A table hollow_processed, once in the catalog, is never
\* changed by any step; every successful run leaves its own data in the
\* export; so the export and the table differ whenever the run loaded
\* data other than the table's.
C9_NoRefresh ==
    [][/\ TargetEntries(catalog) # {}
          => TargetEntries(catalog') = TargetEntries(catalog)
       /\ \A r \in Procs :
             EndsDone(r)
             => /\ localExport' = lastRun'.loaded
                /\ lastRun'.loaded # TargetData(catalog')
                      => localExport' # TargetData(catalog')]_vars

\* A table created by an earlier run holds other rows than the export left
\* by the successful run that ended last, whose source is still in place.
C9_Witness ==
    /\ NoRunInProgress
    /\ lastRun.outcome = "done"
    /\ ~Created(lastRun.trace)
    /\ localExport = {source}
    /\ \E t \in TargetEntries(catalog) :
          /\ t.format = "parquet"
          /\ t.data.rows # source.rows

\* C10: the table exists when described.  A run at the describe statement
\* finds exactly one table hollow_processed, whether it created it or
\* not, and between runs the catalog holds exactly one such table when the
\* run that ended last was successful.
C10_TableExistsWhenDescribed ==
    /\ \A r \in Procs :
          pc[r] = "describe" => Cardinality(TargetEntries(catalog)) = 1
    /\ (NoRunInProgress /\ lastRun.outcome = "done")
          => Cardinality(TargetEntries(catalog)) = 1
    /\ lastRun.failedAt = "describe" => TargetEntries(catalog) # {}

\* A run that did not create the table is at the describe statement, after
\* a successful run that created it.
C10_Witness ==
    /\ \E r \in Procs : pc[r] = "describe" /\ tableAtStart[r] # {}
                          /\ ~Created(trace[r])
    /\ lastRun.outcome = "done"
    /\ Created(lastRun.trace)
====
